---- MODULE Spec2Model ----
(***************************************************************************)
(* Model of backend/app.py: a Flask application with four POST routes that *)
(* forward to two process-wide SDK clients, `breeze` (brokerage) and       *)
(* `model` (generative text).  Requests are served by worker threads that  *)
(* share the two clients.  An external call is split into the step that    *)
(* enters the handler and starts the call, and the step in which the call  *)
(* returns or raises and the handler builds its response.                  *)
(***************************************************************************)
EXTENDS Integers, Sequences, FiniteSets, TLC

\* Number of worker threads serving requests at the same time.
NumThreads == 2

Threads == 1..NumThreads

VARIABLES
    session,    \* session state held inside the shared `breeze` client
    pc,         \* per thread: "idle", "called" (external call in progress), "done"
    req,        \* per thread: the request being handled (route and body)
    calls,      \* per thread: the external invocations made for this request
    seen,       \* per thread: the session state the external call started under
    outcome,    \* per thread: how the external call ended
    resp        \* per thread: the HTTP response built for this request

vars == <<session, pc, req, calls, seen, outcome, resp>>

-----------------------------------------------------------------------------
(* Python values, JSON values and the conversions between them.            *)

PyNone == [t |-> "None"]
PyStr(s) == [t |-> "str", v |-> s]
PyInt(n) == [t |-> "int", v |-> n]
PyDict(f) == [t |-> "dict", v |-> f]
PyList(q) == [t |-> "list", v |-> q]

JNull == [j |-> "null"]
JString(s) == [j |-> "string", v |-> s]
JNumber(n) == [j |-> "number", v |-> n]
JObject(f) == [j |-> "object", v |-> f]
JArray(q) == [j |-> "array", v |-> q]

\* json.dumps as used by flask.jsonify: a Python value to its JSON value.
RECURSIVE dumps(_)
dumps(x) ==
    CASE x.t = "None" -> JNull
      [] x.t = "str"  -> JString(x.v)
      [] x.t = "int"  -> JNumber(x.v)
      [] x.t = "dict" -> JObject([k \in DOMAIN x.v |-> dumps(x.v[k])])
      [] x.t = "list" -> JArray([i \in DOMAIN x.v |-> dumps(x.v[i])])

\* json.loads as used by request.json: a JSON value to its Python value.
RECURSIVE loads(_)
loads(y) ==
    CASE y.j = "null"   -> PyNone
      [] y.j = "string" -> PyStr(y.v)
      [] y.j = "number" -> PyInt(y.v)
      [] y.j = "object" -> PyDict([k \in DOMAIN y.v |-> loads(y.v[k])])
      [] y.j = "array"  -> PyList([i \in DOMAIN y.v |-> loads(y.v[i])])

\* str(e) of an exception: the message, except that KeyError shows the repr
\* of its key.
str(e) == IF e.cls = "KeyError" THEN "'" \o e.msg \o "'" ELSE e.msg

\* Formatting of a value inside an f-string.
format(x) == IF x.t = "str" THEN x.v ELSE "None"

-----------------------------------------------------------------------------
(* Process-wide configuration and the values the environment supplies.     *)

BREEZE_API_SECRET == PyStr("secret")

\* The field each route reads from the request body.
FieldOf(route) ==
    CASE route = "api-session"    -> "api_session"
      [] route = "quotes"         -> "stock_code"
      [] route = "depth"          -> "stock_code"
      [] route = "analyze_market" -> "log_date"

\* The value a well-formed request carries in that field.
ValueOf(route) ==
    CASE route = "api-session"    -> "tok-1"
      [] route = "quotes"         -> "NIFTY"
      [] route = "depth"          -> "NIFTY"
      [] route = "analyze_market" -> "2024-01-01"

\* Request bodies: no body at all, the JSON texts null and [], the empty
\* object, and an object carrying the route's field.
AbsentBody == [present |-> FALSE]
JsonBody(y) == [present |-> TRUE, json |-> y]

Bodies(route) ==
    { AbsentBody,
      JsonBody(JNull),
      JsonBody(JArray(<<>>)),
      JsonBody(JObject(<<>>)),
      JsonBody(JObject([k \in {FieldOf(route)} |-> JString(ValueOf(route))])) }

\* Exceptions the SDKs raise.
Exceptions ==
    { [cls |-> "Exception", msg |-> "Session key is expired."],
      [cls |-> "KeyError",  msg |-> "Success"] }

\* Payloads the brokerage client returns: parsed JSON of the provider, or
\* nothing at all.
Payloads ==
    { PyNone,
      PyDict([Success |-> PyList(<<PyDict([ltp |-> PyInt(100)])>>),
              Status |-> PyInt(200), Error |-> PyNone]),
      PyDict([Success |-> PyNone, Status |-> PyInt(500),
              Error |-> PyStr("No Data Found")]) }

\* Texts the generative model returns.
Texts == { "Nifty closed higher." }

Returned(x) == [kind |-> "return", value |-> x]
Raised(e) == [kind |-> "raise", exc |-> e]
NoOutcome == [kind |-> "none"]

\* How each external method may end.
Outcomes(route) ==
    { Raised(e) : e \in Exceptions } \cup
    CASE route = "api-session"    -> { Returned(PyNone) }
      [] route = "quotes"         -> { Returned(p) : p \in Payloads }
      [] route = "depth"          -> { Returned(p) : p \in Payloads }
      [] route = "analyze_market" -> { Returned(PyStr(x)) : x \in Texts }

-----------------------------------------------------------------------------
(* The framework: reading the body, and what it answers when the view      *)
(* function does not return.                                               *)

Value(x) == [kind |-> "value", value |-> x]
Abort(code) == [kind |-> "abort", status |-> code]

\* request.json.  A JSON body is parsed.  For a request without a body the
\* framework, depending on its version and the request's content type,
\* aborts with 400 or 415 or yields None.
request_json(body) ==
    IF body.present
    THEN { Value(loads(body.json)) }
    ELSE { Abort(400), Abort(415), Value(PyNone) }

\* data.get(key): the value, None when the key is missing, and an
\* AttributeError (answered by the framework with 500) when data is no dict.
data_get(got, key) ==
    IF got.kind = "abort" THEN got
    ELSE IF got.value.t = "dict"
         THEN Value(IF key \in DOMAIN got.value.v THEN got.value.v[key] ELSE PyNone)
         ELSE Abort(500)

\* flask.jsonify(x): a 200 response with the JSON of x; `x, code` sets the status.
jsonify(x, code) == [status |-> code, mimetype |-> "application/json", body |-> dumps(x)]

\* The framework's own error page for an exception that leaves the view function.
ErrorPage(code) == [status |-> code, mimetype |-> "text/html", body |-> [j |-> "html"]]

NoRequest == [route |-> "none"]
NoResponse == [status |-> 0]

Init ==
    /\ session = "unauthenticated"
    /\ pc = [t \in Threads |-> "idle"]
    /\ req = [t \in Threads |-> NoRequest]
    /\ calls = [t \in Threads |-> <<>>]
    /\ seen = [t \in Threads |-> "none"]
    /\ outcome = [t \in Threads |-> NoOutcome]
    /\ resp = [t \in Threads |-> NoResponse]

\* The view function reached its external call: the call is now in progress.
Called(t, route, body, call) ==
    /\ pc' = [pc EXCEPT ![t] = "called"]
    /\ req' = [req EXCEPT ![t] = [route |-> route, body |-> body]]
    /\ calls' = [calls EXCEPT ![t] = <<call>>]
    /\ seen' = [seen EXCEPT ![t] = session]
    /\ UNCHANGED <<session, outcome, resp>>

\* The view function was left by an exception before its try block.
Aborted(t, route, body, code) ==
    /\ pc' = [pc EXCEPT ![t] = "done"]
    /\ req' = [req EXCEPT ![t] = [route |-> route, body |-> body]]
    /\ resp' = [resp EXCEPT ![t] = ErrorPage(code)]
    /\ UNCHANGED <<session, calls, seen, outcome>>

\* The external call ended and the view function returned `r`.
Responded(t, out, r) ==
    /\ pc' = [pc EXCEPT ![t] = "done"]
    /\ outcome' = [outcome EXCEPT ![t] = out]
    /\ resp' = [resp EXCEPT ![t] = r]
    /\ UNCHANGED <<req, calls, seen>>

-----------------------------------------------------------------------------
(* POST /api/breeze/admin/api-session                                      *)

generate_session_call(session_token) ==
    [client |-> "breeze", method |-> "generate_session",
     args |-> [api_secret |-> BREEZE_API_SECRET, session_token |-> session_token]]

\* Variant: the except branch answers 500, as the other routes do.
set_session_response_500(out) ==
    IF out.kind = "return"
    THEN jsonify(PyDict([status |-> PyStr("success"),
                         message |-> PyStr("Session generated")]), 200)
    ELSE jsonify(PyDict([status |-> PyStr("error"),
                         message |-> PyStr(str(out.exc))]), 500)

\* What the try block answers for each way generate_session ends.
set_session_response(out) ==
    IF out.kind = "return"
    THEN jsonify(PyDict([status |-> PyStr("success"),
                         message |-> PyStr("Session generated")]), 200)
    ELSE jsonify(PyDict([status |-> PyStr("error"),
                         message |-> PyStr(str(out.exc))]), 400)

\* data = request.json; data.get("api_session"); generate_session is invoked.
set_session_enter(t) ==
    /\ pc[t] = "idle"
    /\ \E body \in Bodies("api-session") : \E got \in request_json(body) :
         LET session_token == data_get(got, "api_session") IN
         IF session_token.kind = "value"
         THEN Called(t, "api-session", body, generate_session_call(session_token.value))
         ELSE Aborted(t, "api-session", body, session_token.status)

\* generate_session returns (the client now holds a session) or raises.
set_session_return(t) ==
    /\ pc[t] = "called"
    /\ req[t].route = "api-session"
    /\ \E out \in Outcomes("api-session") :
         /\ Responded(t, out, set_session_response(out))
         /\ session' = IF out.kind = "return" THEN "authenticated" ELSE session

-----------------------------------------------------------------------------
(* POST /api/breeze/quotes                                                 *)

get_quotes_call(stock_code) ==
    [client |-> "breeze", method |-> "get_quotes",
     args |-> [stock_code |-> stock_code, exchange_code |-> PyStr("NSE"),
               expiry_date |-> PyStr(""), product_type |-> PyStr("cash"),
               right |-> PyStr(""), strike_price |-> PyStr("")]]

\* Variant: the payload is wrapped in an envelope instead of passed through.
get_quotes_response_wrapped(out) ==
    IF out.kind = "return"
    THEN jsonify(PyDict([status |-> PyStr("success"), data |-> out.value]), 200)
    ELSE jsonify(PyDict([status |-> PyStr("error"),
                         message |-> PyStr(str(out.exc))]), 500)

get_quotes_response(out) ==
    IF out.kind = "return"
    THEN jsonify(out.value, 200)
    ELSE jsonify(PyDict([status |-> PyStr("error"),
                         message |-> PyStr(str(out.exc))]), 500)

\* Variant: the call waits while a generate_session is in progress (a lock
\* around the shared client).
get_quotes_enter_locked(t) ==
    /\ pc[t] = "idle"
    /\ \A u \in Threads : ~(pc[u] = "called" /\ req[u].route = "api-session")
    /\ \E body \in Bodies("quotes") : \E got \in request_json(body) :
         LET stock_code == data_get(got, "stock_code") IN
         IF stock_code.kind = "value"
         THEN Called(t, "quotes", body, get_quotes_call(stock_code.value))
         ELSE Aborted(t, "quotes", body, stock_code.status)

get_quotes_enter(t) ==
    /\ pc[t] = "idle"
    /\ \E body \in Bodies("quotes") : \E got \in request_json(body) :
         LET stock_code == data_get(got, "stock_code") IN
         IF stock_code.kind = "value"
         THEN Called(t, "quotes", body, get_quotes_call(stock_code.value))
         ELSE Aborted(t, "quotes", body, stock_code.status)

\* Variant: a failed call drops the client's session.
get_quotes_return_reset(t) ==
    /\ pc[t] = "called"
    /\ req[t].route = "quotes"
    /\ \E out \in Outcomes("quotes") :
         /\ Responded(t, out, get_quotes_response(out))
         /\ session' = IF out.kind = "raise" THEN "unauthenticated" ELSE session

get_quotes_return(t) ==
    /\ pc[t] = "called"
    /\ req[t].route = "quotes"
    /\ \E out \in Outcomes("quotes") : Responded(t, out, get_quotes_response(out))
    /\ UNCHANGED session

-----------------------------------------------------------------------------
(* POST /api/breeze/depth                                                  *)

get_market_depth_call(stock_code) ==
    [client |-> "breeze", method |-> "get_market_depth",
     args |-> [stock_code |-> stock_code, exchange_code |-> PyStr("NSE"),
               product_type |-> PyStr("cash")]]

\* Variant: the except branch leaves out the status code.
get_depth_response_200(out) ==
    IF out.kind = "return"
    THEN jsonify(out.value, 200)
    ELSE jsonify(PyDict([status |-> PyStr("error"),
                         message |-> PyStr(str(out.exc))]), 200)

get_depth_response(out) ==
    IF out.kind = "return"
    THEN jsonify(out.value, 200)
    ELSE jsonify(PyDict([status |-> PyStr("error"),
                         message |-> PyStr(str(out.exc))]), 500)

get_depth_enter(t) ==
    /\ pc[t] = "idle"
    /\ \E body \in Bodies("depth") : \E got \in request_json(body) :
         LET stock_code == data_get(got, "stock_code") IN
         IF stock_code.kind = "value"
         THEN Called(t, "depth", body, get_market_depth_call(stock_code.value))
         ELSE Aborted(t, "depth", body, stock_code.status)

get_depth_return(t) ==
    /\ pc[t] = "called"
    /\ req[t].route = "depth"
    /\ \E out \in Outcomes("depth") : Responded(t, out, get_depth_response(out))
    /\ UNCHANGED session

-----------------------------------------------------------------------------
(* POST /api/analyze_market                                                *)

\* Variant: the string is no f-string, its braces are sent as written.
prompt_literal(log_date) == "Analyze Nifty 50 for {data.get('log_date')}..."

\* f"Analyze Nifty 50 for {data.get('log_date')}..."
prompt(log_date) == "Analyze Nifty 50 for " \o format(log_date) \o "..."

generate_content_call(log_date) ==
    [client |-> "model", method |-> "generate_content",
     args |-> [prompt |-> PyStr(prompt(log_date))]]

\* Variant: the except branch leaves out the status code.
analyze_market_response_200(out) ==
    IF out.kind = "return"
    THEN jsonify(PyDict([text |-> out.value]), 200)
    ELSE jsonify(PyDict([error |-> PyStr(str(out.exc))]), 200)

analyze_market_response(out) ==
    IF out.kind = "return"
    THEN jsonify(PyDict([text |-> out.value]), 200)
    ELSE jsonify(PyDict([error |-> PyStr(str(out.exc))]), 500)

analyze_market_enter(t) ==
    /\ pc[t] = "idle"
    /\ \E body \in Bodies("analyze_market") : \E got \in request_json(body) :
         LET log_date == data_get(got, "log_date") IN
         IF log_date.kind = "value"
         THEN Called(t, "analyze_market", body, generate_content_call(log_date.value))
         ELSE Aborted(t, "analyze_market", body, log_date.status)

analyze_market_return(t) ==
    /\ pc[t] = "called"
    /\ req[t].route = "analyze_market"
    /\ \E out \in Outcomes("analyze_market") :
         Responded(t, out, analyze_market_response(out))
    /\ UNCHANGED session

-----------------------------------------------------------------------------
\* The response is sent and the worker thread takes the next request.
send_response(t) ==
    /\ pc[t] = "done"
    /\ pc' = [pc EXCEPT ![t] = "idle"]
    /\ req' = [req EXCEPT ![t] = NoRequest]
    /\ calls' = [calls EXCEPT ![t] = <<>>]
    /\ seen' = [seen EXCEPT ![t] = "none"]
    /\ outcome' = [outcome EXCEPT ![t] = NoOutcome]
    /\ resp' = [resp EXCEPT ![t] = NoResponse]
    /\ UNCHANGED session

Next ==
    \E t \in Threads :
        \/ analyze_market_enter(t)
        \/ analyze_market_return(t)
        \/ set_session_enter(t)
        \/ set_session_return(t)
        \/ get_quotes_enter(t)
        \/ get_quotes_return(t)
        \/ get_depth_enter(t)
        \/ get_depth_return(t)
        \/ send_response(t)

Spec == Init /\ [][Next]_vars

-----------------------------------------------------------------------------
(* Vocabulary of the properties.                                           *)

Done(t) == pc[t] = "done"

\* The request body is a JSON object that carries the route's field.
Carries(t) ==
    /\ req[t].body.present
    /\ req[t].body.json.j = "object"
    /\ FieldOf(req[t].route) \in DOMAIN req[t].body.json.v

\* The value carried in the route's field, as the handler reads it.
Carried(t) == PyStr(req[t].body.json.v[FieldOf(req[t].route)].v)

\* The required field is missing: there is no body, or an object without it.
MissingField(t) ==
    \/ ~req[t].body.present
    \/ /\ req[t].body.json.j = "object"
       /\ FieldOf(req[t].route) \notin DOMAIN req[t].body.json.v

MethodOf(route) ==
    CASE route = "api-session"    -> "generate_session"
      [] route = "quotes"         -> "get_quotes"
      [] route = "depth"          -> "get_market_depth"
      [] route = "analyze_market" -> "generate_content"

FixedStatus(route) == IF route = "api-session" THEN 400 ELSE 500

JsonResponse(code, body) == [status |-> code, mimetype |-> "application/json", body |-> body]

StatusError(text) == JObject([status |-> JString("error"), message |-> JString(text)])

Contains(s, sub) ==
    \E i \in 1..(Len(s) - Len(sub) + 1) : SubSeq(s, i, i + Len(sub) - 1) = sub

MarketData == {"quotes", "depth"}

-----------------------------------------------------------------------------
\* C1: a session request carrying token t invokes generate_session exactly
\* once with (BREEZE_API_SECRET, t); a normal return is answered 200 with
\* {status: "success", message: "Session generated"}, an exception e is
\* answered 400 with {status: "error", message: str(e)}.
C1_SessionContract ==
    \A t \in Threads :
        (Done(t) /\ req[t].route = "api-session" /\ Carries(t)) =>
            /\ calls[t] = << [client |-> "breeze", method |-> "generate_session",
                              args |-> [api_secret |-> BREEZE_API_SECRET,
                                        session_token |-> Carried(t)]] >>
            /\ outcome[t].kind = "return" =>
                 resp[t] = JsonResponse(200,
                              JObject([status |-> JString("success"),
                                       message |-> JString("Session generated")]))
            /\ outcome[t].kind = "raise" =>
                 resp[t] = JsonResponse(400, StatusError(str(outcome[t].exc)))

C1_Witness ==
    \E t \in Threads :
        /\ Done(t) /\ req[t].route = "api-session" /\ Carries(t)
        /\ outcome[t].kind = "raise" /\ outcome[t].exc.cls = "KeyError"

\* C2: when the brokerage call returns normally, the quotes and the depth
\* route answer 200 with a JSON body that reads back as exactly the payload
\* returned by the route's own call (get_quotes, get_market_depth).
C2_PayloadPassThrough ==
    \A t \in Threads :
        (Done(t) /\ req[t].route \in MarketData /\ outcome[t].kind = "return") =>
            /\ resp[t].status = 200
            /\ resp[t].mimetype = "application/json"
            /\ loads(resp[t].body) = outcome[t].value
            /\ Len(calls[t]) = 1
            /\ calls[t][1].method = MethodOf(req[t].route)

C2_Witness ==
    \E t \in Threads :
        /\ Done(t) /\ req[t].route = "depth" /\ Carries(t)
        /\ outcome[t].kind = "return"
        /\ resp[t].status = 200

\* C3: an exception e raised by the brokerage client in the quotes or depth
\* handler is answered 500 with {status: "error", message: str(e)}, never
\* with 200 or another status.
C3_BrokerageErrorIs500 ==
    \A t \in Threads :
        (Done(t) /\ req[t].route \in MarketData /\ outcome[t].kind = "raise") =>
            resp[t] = JsonResponse(500, StatusError(str(outcome[t].exc)))

C3_Witness ==
    \E t \in Threads :
        /\ Done(t) /\ req[t].route = "quotes"
        /\ outcome[t].kind = "raise" /\ outcome[t].exc.cls = "KeyError"
        /\ resp[t].status = 500

\* C4: an analyze_market request with log_date d sends the generative client
\* a prompt that contains d; returned text x is answered 200 with {text: x},
\* an exception e is answered 500 with {error: str(e)}.
C4_AnalyzeContract ==
    \A t \in Threads :
        (Done(t) /\ req[t].route = "analyze_market" /\ Carries(t)) =>
            /\ Len(calls[t]) = 1
            /\ calls[t][1].method = "generate_content"
            /\ Contains(calls[t][1].args.prompt.v, Carried(t).v)
            /\ outcome[t].kind = "return" =>
                 resp[t] = JsonResponse(200, JObject([text |-> JString(outcome[t].value.v)]))
            /\ outcome[t].kind = "raise" =>
                 resp[t] = JsonResponse(500, JObject([error |-> JString(str(outcome[t].exc))]))

C4_Witness ==
    \E t \in Threads :
        /\ Done(t) /\ req[t].route = "analyze_market" /\ Carries(t)
        /\ outcome[t].kind = "return"
        /\ resp[t].status = 200

\* C5: every request that does not succeed, wherever in the handler it fails
\* (reading the body and extracting the field included), is answered with a
\* JSON error payload and the route's fixed status: 400 for the session
\* route, 500 for quotes, depth and analyze_market.
C5_EveryFailureIsJsonError ==
    \A t \in Threads :
        (Done(t) /\ outcome[t].kind # "return") =>
            /\ resp[t].mimetype = "application/json"
            /\ resp[t].status = FixedStatus(req[t].route)

\* C6: a request to a brokerage route whose field is missing (no body, or an
\* object without the field) reaches the client as one call with a None
\* argument, is answered with what the handler makes of that call's
\* outcome, and leaves the worker able to take the next request.
C6_MissingFieldReachesClient ==
    \A t \in Threads :
        (Done(t) /\ req[t].route \in MarketData \cup {"api-session"} /\ MissingField(t)) =>
            /\ Len(calls[t]) = 1
            /\ calls[t][1].method = MethodOf(req[t].route)
            /\ \/ req[t].route = "api-session" /\ calls[t][1].args.session_token = PyNone
               \/ req[t].route \in MarketData /\ calls[t][1].args.stock_code = PyNone
            /\ outcome[t].kind \in {"return", "raise"}
            /\ resp[t].mimetype = "application/json"
            /\ ENABLED send_response(t)

\* C7 as stated: no quotes, depth or analyze_market request ends with a
\* success response before a session request has completed successfully.
C7_NoSuccessBeforeSession ==
    \A t \in Threads :
        (Done(t) /\ req[t].route # "api-session" /\ resp[t].status = 200) =>
            session = "authenticated"

\* C7 as amended: a quotes, depth or analyze_market request ends with a
\* success response only when its own external call, the one call it made,
\* returned normally; the session state plays no part.
C7_SuccessOnlyByOwnCall ==
    \A t \in Threads :
        (Done(t) /\ req[t].route # "api-session" /\ resp[t].status = 200) =>
            /\ outcome[t].kind = "return"
            /\ Len(calls[t]) = 1
            /\ calls[t][1].method = MethodOf(req[t].route)

C7_Witness ==
    \E t \in Threads :
        /\ Done(t) /\ req[t].route = "analyze_market"
        /\ resp[t].status = 200
        /\ session = "unauthenticated"

\* C8: every handled request has invoked exactly one external method, the
\* one of its route (get_quotes and get_market_depth with exchange "NSE" and
\* product type "cash"), on success and on failure alike.
C8_ExactlyOneCall ==
    \A t \in Threads :
        Done(t) =>
            /\ Len(calls[t]) = 1
            /\ calls[t][1].method = MethodOf(req[t].route)
            /\ req[t].route \in MarketData =>
                 /\ calls[t][1].args.exchange_code = PyStr("NSE")
                 /\ calls[t][1].args.product_type = PyStr("cash")

C10_NoOrdering ==
    \A a \in Threads : \A b \in Threads \ {a} :
        (pc[a] = "called" /\ req[a].route = "api-session") =>
            /\ ENABLED set_session_return(a)
            /\ pc[b] = "idle" => (ENABLED get_quotes_enter(b) /\ ENABLED get_depth_enter(b))
            /\ (pc[b] = "called" /\ req[b].route = "quotes") => ENABLED get_quotes_return(b)
            /\ (pc[b] = "called" /\ req[b].route = "depth") => ENABLED get_depth_return(b)

\* A market-data call that started under the old state is still in progress
\* after the generate_session of a request handled beside it has returned.
C10_Witness ==
    \E a \in Threads : \E b \in Threads \ {a} :
        /\ Done(a) /\ req[a].route = "api-session" /\ resp[a].status = 200
        /\ pc[b] = "called" /\ req[b].route \in MarketData
        /\ seen[b] = "unauthenticated"
        /\ session = "authenticated"

====
